---- MODULE Spec2Model ----
(***************************************************************************)
(* A model of subarray-ring-buffer's RingBuffer (index.js): a fixed-size   *)
(* Buffer, a write offset, the strict and safe flags, the safe-mode byte   *)
(* counter, and the views (subarrays, BufferLists, Proxies) that write()   *)
(* has handed out and that the caller may read at any later time.          *)
(*                                                                         *)
(* Storage offsets are 0-based as in the source; a TLA+ sequence is        *)
(* 1-based, so the byte at offset k of a buffer b is b[k + 1].             *)
(*                                                                         *)
(* The code never inspects a byte, it only copies bytes.  The chunks       *)
(* written are therefore taken pairwise distinct: byte i of the chunk is   *)
(* the number of bytes handed to write() so far plus i.  Any misplaced,    *)
(* reordered or overwritten byte then shows as a difference.  The length   *)
(* of every chunk is free.  Buffer.allocUnsafe leaves the storage          *)
(* uninitialised: every initial content over Garbage is possible.          *)
(***************************************************************************)
EXTENDS Integers, Sequences, FiniteSets, TLC

\* Largest size handed to the constructor.
MaxCap == 3
\* Largest number of successful writes (one view is returned by each).
MaxWrites == 4
\* A chunk is at most this many bytes longer than the buffer.
MaxOver == 1

\* What uninitialised storage may hold.
Garbage == {0, 255}

VARIABLES
    pc,           \* "new" before the constructor ran, then "ready" or "failed"
    buffer,       \* #buffer: the storage, a sequence of bytes
    offset,       \* #offset: where the next write starts
    strict,       \* #strict
    safe,         \* #safe
    totalOffset,  \* #totalOffset: bytes written so far (safe mode only)
    views,        \* the views returned by the successful writes, in order
    result,       \* what the last call returned or threw
    fed           \* bytes handed to successful writes so far (numbers the chunk bytes)

vars == <<pc, buffer, offset, strict, safe, totalOffset, views, result, fed>>

Min(a, b) == IF a < b THEN a ELSE b

Max(a, b) == IF a > b THEN a ELSE b

\* The bytes of s at offsets [from, to).
Slice(s, from, to) == SubSeq(s, from + 1, to)

\* The chunk of n bytes the caller writes next.
NextChunk(n) == [i \in 1..n |-> fed + i]

NoResult ==
    [op |-> "none", status |-> "ok", message |-> "", view |-> 0, bytes |-> <<>>, n |-> 0]

----------------------------------------------------------------------------
\* node:buffer

\* source.copy(target, targetStart, sourceStart, sourceEnd): the target after
\* the copy.  Nothing is copied when targetStart is at or past the end of the
\* target or the source range is empty; the copy stops at the end of the target.
Copy(source, target, targetStart, sourceStart, sourceEnd) ==
    LET nb == Min(sourceEnd - sourceStart, Len(target) - targetStart)
    IN  IF targetStart >= Len(target) \/ sourceStart >= sourceEnd
        THEN target
        ELSE [i \in 1..Len(target) |->
                 IF i > targetStart /\ i <= targetStart + nb
                 THEN source[sourceStart + (i - targetStart)]
                 ELSE target[i]]

\* buf.subarray(start, end): the range of offsets the subarray covers.
Subarray(buf, start, end) ==
    LET s == Min(Max(start, 0), Len(buf))
        e == Min(Max(end, 0), Len(buf))
    IN  <<s, Max(s, e)>>

----------------------------------------------------------------------------
\* bl

\* The bytes a BufferList over the ranges segs of buf presents: the ranges in
\* order, each read from the storage as it is now.
RECURSIVE Concat(_, _)
Concat(segs, buf) ==
    IF segs = <<>>
    THEN <<>>
    ELSE Slice(buf, Head(segs)[1], Head(segs)[2]) \o Concat(Tail(segs), buf)

\* emptyBufferList
emptyBufferList == <<>>

----------------------------------------------------------------------------
\* RingBuffer.#write, branch by branch.  Each yields the storage and offset
\* after the call and the kind and ranges of the value returned.

\* ThrowWrite with the check made after the copy: the storage is overwritten
\* and then the call throws.
ThrowWrite_AfterCopy(buf, off, chunk) ==
    [threw |-> TRUE, message |-> "chunk length exceeds size of ring buffer",
     buffer |-> Copy(chunk, buf, 0, Len(chunk) - Len(buf), Len(chunk)),
     offset |-> off, kind |-> "none", segs |-> <<>>]

\* chunk.length > this.#buffer.length, strict: throws before touching anything.
ThrowWrite(buf, off, chunk) ==
    [threw |-> TRUE, message |-> "chunk length exceeds size of ring buffer",
     buffer |-> buf, offset |-> off, kind |-> "none", segs |-> <<>>]

\* OversizeWrite that copies from the start of the chunk: the leading bytes
\* are kept instead of the trailing ones.
OversizeWrite_Head(buf, off, chunk) ==
    [threw  |-> FALSE, message |-> "",
     buffer |-> Copy(chunk, buf, 0, 0, Len(chunk)),
     offset |-> off,
     kind   |-> "Buffer",
     segs   |-> << <<0, Len(buf)>> >>]

\* chunk.length > this.#buffer.length, not strict: the trailing bytes are copied
\* to offset 0 and this.#buffer itself is returned; #offset is not assigned.
OversizeWrite(buf, off, chunk) ==
    [threw  |-> FALSE, message |-> "",
     buffer |-> Copy(chunk, buf, 0, Len(chunk) - Len(buf), Len(chunk)),
     offset |-> off,
     kind   |-> "Buffer",
     segs   |-> << <<0, Len(buf)>> >>]

\* WrapWrite whose second copy starts at the first byte of the chunk again
\* instead of at byte remaining.
WrapWrite_SecondFromStart(buf, off, chunk) ==
    LET remaining == Len(buf) - off
        first     == Copy(chunk, buf, off, 0, remaining)
        second    == Copy(chunk, first, 0, 0, Len(chunk) - remaining)
        newOffset == Len(chunk) - remaining
    IN  [threw  |-> FALSE, message |-> "",
         buffer |-> second,
         offset |-> newOffset,
         kind   |-> "BufferList",
         segs   |-> << Subarray(buf, off, Len(buf)), Subarray(buf, 0, newOffset) >>]

\* WrapWrite that restarts at offset 0 with the whole chunk instead of
\* splitting it at the end of the storage.
WrapWrite_FromZero(buf, off, chunk) ==
    LET remaining == Len(buf) - off
        newOffset == Len(chunk) - remaining
    IN  [threw  |-> FALSE, message |-> "",
         buffer |-> Copy(chunk, buf, 0, 0, Len(chunk)),
         offset |-> newOffset,
         kind   |-> "BufferList",
         segs   |-> << Subarray(buf, off, Len(buf)), Subarray(buf, 0, newOffset) >>]

\* this.#offset + chunk.length > this.#buffer.length: two copies, a BufferList
\* of two subarrays; the first subarray is taken before #offset is assigned.
WrapWrite(buf, off, chunk) ==
    LET remaining == Len(buf) - off
        first     == Copy(chunk, buf, off, 0, remaining)
        second    == Copy(chunk, first, 0, remaining, Len(chunk))
        newOffset == Len(chunk) - remaining
    IN  [threw  |-> FALSE, message |-> "",
         buffer |-> second,
         offset |-> newOffset,
         kind   |-> "BufferList",
         segs   |-> << Subarray(buf, off, Len(buf)), Subarray(buf, 0, newOffset) >>]

\* FitWrite that does not assign #offset.
FitWrite_Stay(buf, off, chunk) ==
    LET newOffset == off + Len(chunk)
    IN  [threw  |-> FALSE, message |-> "",
         buffer |-> Copy(chunk, buf, off, 0, Len(chunk)),
         offset |-> off,
         kind   |-> "Buffer",
         segs   |-> << Subarray(buf, off, newOffset) >>]

\* Otherwise: one copy at #offset, one subarray.
FitWrite(buf, off, chunk) ==
    LET newOffset == off + Len(chunk)
    IN  [threw  |-> FALSE, message |-> "",
         buffer |-> Copy(chunk, buf, off, 0, Len(chunk)),
         offset |-> newOffset,
         kind   |-> "Buffer",
         segs   |-> << Subarray(buf, off, newOffset) >>]

\* TooLarge with >= for >: a chunk of exactly the buffer's size is too large.
TooLarge_OrEqual(buf, chunk) == Len(chunk) >= Len(buf)

\* chunk.length > this.#buffer.length
TooLarge(buf, chunk) == Len(chunk) > Len(buf)

\* RingBuffer.#write
priv_write(buf, off, str, chunk) ==
    IF TooLarge(buf, chunk)
    THEN IF str THEN ThrowWrite(buf, off, chunk) ELSE OversizeWrite(buf, off, chunk)
    ELSE IF off + Len(chunk) > Len(buf)
         THEN WrapWrite(buf, off, chunk)
         ELSE FitWrite(buf, off, chunk)

----------------------------------------------------------------------------
\* RingBuffer.write, safe mode

\* SafeOffset one byte too far: a view outlives the overwrite of its first byte.
SafeOffset_OneLate(total, buf) == total + Len(buf) + 1

\* SafeOffset one byte short: a view that fills the buffer is stale at once.
SafeOffset_Early(total, buf) == total + Len(buf) - 1

\* const safeOffset = this.#totalOffset + this.#buffer.length, taken before #write
SafeOffset(total, buf) == total + Len(buf)

\* Advance that counts writes, not bytes.
Advance_One(total, chunk) == total + 1

\* this.#totalOffset += chunk.length
Advance(total, chunk) == total + Len(chunk)

\* Stale with >= for >.
Stale_OrEqual(total, safeOffset) == total >= safeOffset

\* this.#totalOffset > safeOffset, evaluated by the Proxy on every property access
Stale(total, safeOffset) == total > safeOffset

\* Get that does not swap in the empty BufferList: a stale view of a buffer
\* that is not strict is read from the storage.
Get_NoEmpty(v, buf, total, str) ==
    IF v.proxied /\ Stale(total, v.safeOffset) /\ str
    THEN [status |-> "error", message |-> "buffer is no longer safe to access",
          bytes |-> <<>>]
    ELSE [status |-> "ok", message |-> "", bytes |-> Concat(v.segs, buf)]

\* Get over a private copy: the view yields the bytes its write was given, not
\* what the storage holds now.
Get_Copy(v, buf, total, str) ==
    IF v.proxied /\ Stale(total, v.safeOffset)
    THEN IF str
         THEN [status |-> "error", message |-> "buffer is no longer safe to access",
               bytes |-> <<>>]
         ELSE [status |-> "ok", message |-> "", bytes |-> emptyBufferList]
    ELSE [status |-> "ok", message |-> "",
          bytes |-> Slice(v.chunk, Max(Len(v.chunk) - Len(buf), 0), Len(v.chunk))]

\* What a read of the view v (length, toString, slice, ...) gives the caller
\* when the storage is buf and #totalOffset is total.
Get(v, buf, total, str) ==
    IF v.proxied /\ Stale(total, v.safeOffset)
    THEN IF str
         THEN [status |-> "error", message |-> "buffer is no longer safe to access",
               bytes |-> <<>>]
         ELSE [status |-> "ok", message |-> "", bytes |-> emptyBufferList]
    ELSE [status |-> "ok", message |-> "", bytes |-> Concat(v.segs, buf)]

\* A read of v in the current state.
ReadView(v) == Get(v, buffer, totalOffset, strict)

----------------------------------------------------------------------------
Init ==
    /\ pc = "new"
    /\ buffer = <<>>
    /\ offset = 0
    /\ strict = FALSE
    /\ safe = FALSE
    /\ totalOffset = 0
    /\ views = <<>>
    /\ result = NoResult
    /\ fed = 0

\* new RingBuffer(size, strict, safe).  Buffer.allocUnsafe(size) throws for a
\* negative size and returns an uninitialised buffer of size bytes otherwise,
\* an empty one for size 0; the constructor makes no check of its own.
constructor(size, st, sf) ==
    /\ pc = "new"
    /\ IF size < 0
       THEN /\ pc' = "failed"
            /\ result' = [NoResult EXCEPT !.op = "new", !.status = "error",
                                          !.message = "RangeError"]
            /\ UNCHANGED <<buffer, strict, safe>>
       ELSE /\ pc' = "ready"
            /\ buffer' \in [1..size -> Garbage]
            /\ strict' = st
            /\ safe' = sf
            /\ result' = [NoResult EXCEPT !.op = "new"]
    /\ UNCHANGED <<offset, totalOffset, views, fed>>

\* ringBuffer.write(chunk)
write(chunk) ==
    /\ pc = "ready"
    /\ Len(views) < MaxWrites
    /\ LET r == priv_write(buffer, offset, strict, chunk)
       IN  /\ buffer' = r.buffer
           /\ offset' = r.offset
           /\ IF r.threw
              THEN /\ result' = [op |-> "write", status |-> "error",
                                 message |-> r.message, view |-> 0,
                                 bytes |-> <<>>, n |-> Len(chunk)]
                   /\ UNCHANGED <<totalOffset, views, fed>>
              ELSE /\ totalOffset' = IF safe THEN Advance(totalOffset, chunk)
                                     ELSE totalOffset
                   /\ views' = Append(views,
                          [kind       |-> r.kind,
                           proxied    |-> safe,
                           segs       |-> r.segs,
                           safeOffset |-> IF safe THEN SafeOffset(totalOffset, buffer)
                                          ELSE 0,
                           chunk      |-> chunk,
                           at         |-> offset])
                   /\ result' = [op |-> "write", status |-> "ok", message |-> "",
                                 view |-> Len(views) + 1, bytes |-> <<>>,
                                 n |-> Len(chunk)]
                   /\ fed' = fed + Len(chunk)
    /\ UNCHANGED <<pc, strict, safe>>

\* read that counts every access as a written byte.
read_Counting(i) ==
    /\ pc = "ready"
    /\ i \in 1..Len(views)
    /\ LET g == Get(views[i], buffer, totalOffset, strict)
       IN  result' = [op |-> "read", status |-> g.status, message |-> g.message,
                      view |-> i, bytes |-> g.bytes, n |-> Len(g.bytes)]
    /\ totalOffset' = totalOffset + 1
    /\ UNCHANGED <<pc, buffer, offset, strict, safe, views, fed>>

\* Any read of the i-th view returned: view.toString(), view.length, ...
read(i) ==
    /\ pc = "ready"
    /\ i \in 1..Len(views)
    /\ LET g == ReadView(views[i])
       IN  result' = [op |-> "read", status |-> g.status, message |-> g.message,
                      view |-> i, bytes |-> g.bytes, n |-> Len(g.bytes)]
    /\ UNCHANGED <<pc, buffer, offset, strict, safe, totalOffset, views, fed>>

Next ==
    \/ \E size \in -1..MaxCap, st \in BOOLEAN, sf \in BOOLEAN : constructor(size, st, sf)
    \/ \E n \in 0..(Len(buffer) + MaxOver) : write(NextChunk(n))
    \/ \E i \in 1..MaxWrites : read(i)

Spec == Init /\ [][Next]_vars

----------------------------------------------------------------------------
\* Vocabulary of the properties.

\* The last write returned a view (it did not throw).
Wrote == pc = "ready" /\ result.op = "write" /\ result.status = "ok"

\* The view the last write returned.
Returned == views[result.view]

\* The bytes of a chunk a buffer of the current size can retain: all of them,
\* or the trailing Len(buffer) ones.
Retained(chunk) ==
    Slice(chunk, Max(Len(chunk) - Len(buffer), 0), Len(chunk))

\* What a successful read that yields exactly the bytes b looks like.
Ok(b) == [status |-> "ok", message |-> "", bytes |-> b]

\* The bytes stored by the i-th and all later writes.
RECURSIVE StoredSince(_)
StoredSince(i) ==
    IF i > Len(views)
    THEN 0
    ELSE Min(Len(views[i].chunk), Len(buffer)) + StoredSince(i + 1)

\* The storage offset of the k-th byte (k from 1) of a view of n bytes whose
\* write began at offset at: the whole storage for a truncated chunk, the
\* ring from at onwards otherwise.
OffsetOf(v, k) ==
    IF Len(v.chunk) > Len(buffer)
    THEN k - 1
    ELSE (v.at + k - 1) % Len(buffer)

----------------------------------------------------------------------------
\* C1: whatever the state, the size and the flags, a write of a chunk no longer
\* than the buffer returns a view that, read right after the write, has the
\* chunk's length and the chunk's bytes in order, whether the bytes went into
\* one range of the storage or wrapped around its end into two.
C1_ViewEqualsChunk ==
    (Wrote /\ Len(Returned.chunk) <= Len(buffer))
        => /\ ReadView(Returned) = Ok(Returned.chunk)
           /\ Len(ReadView(Returned).bytes) = result.n

\* A write has wrapped: both ranges of its view hold bytes, and the view reads
\* as the chunk.
C1_Witness ==
    /\ Wrote
    /\ Len(Returned.segs) = 2
    /\ Returned.segs[1][2] > Returned.segs[1][1]
    /\ Returned.segs[2][2] > Returned.segs[2][1]
    /\ ReadView(Returned).bytes = Returned.chunk

\* C2: in safe mode every read of a view that the Proxy does not treat as
\* stale yields exactly the bytes its write stored: no byte a later write has
\* overwritten is ever shown.
C2_FreshViewIsIntact ==
    \A i \in 1..Len(views) :
        (views[i].proxied /\ ~Stale(totalOffset, views[i].safeOffset))
            => ReadView(views[i]) = Ok(Retained(views[i].chunk))

\* After three writes or more in safe mode the first view has gone stale while
\* the second, of two bytes or more, is not stale and reads as its chunk.
C2_Witness ==
    /\ pc = "ready" /\ safe /\ Len(views) >= 3
    /\ Stale(totalOffset, views[1].safeOffset)
    /\ ~Stale(totalOffset, views[2].safeOffset)
    /\ Len(views[2].chunk) >= 2
    /\ ReadView(views[2]).bytes = views[2].chunk

\* C3: in safe mode, once more bytes than the buffer holds have been stored
\* since the write of a view began, every read of the view throws 'buffer is
\* no longer safe to access' when strict and yields the empty BufferList when
\* not strict, after any further writes.
C3_OverwrittenViewIsStale ==
    \A i \in 1..Len(views) :
        (views[i].proxied /\ StoredSince(i) > Len(buffer))
            => ReadView(views[i]) =
                   IF strict
                   THEN [status |-> "error",
                         message |-> "buffer is no longer safe to access",
                         bytes |-> <<>>]
                   ELSE Ok(<<>>)

\* The first write filled the buffer exactly, one byte followed, then another
\* write, and the first view was read: the read threw.
C3_Witness ==
    /\ pc = "ready" /\ safe /\ strict /\ Len(views) >= 3
    /\ Len(buffer) >= 2
    /\ Len(views[1].chunk) = Len(buffer)
    /\ Len(views[2].chunk) = 1
    /\ result.op = "read" /\ result.view = 1 /\ result.status = "error"

\* C4: in safe mode the view a write returns is valid when it is returned, for
\* every chunk length: read right away it yields the bytes the write retained,
\* the trailing ones of a chunk longer than the buffer.
C4_Claim ==
    (Wrote /\ Returned.proxied)
        => ReadView(Returned) = Ok(Retained(Returned.chunk))

\* C5: on a buffer neither strict nor safe, a chunk longer than the buffer
\* yields one plain Buffer of the buffer's length holding the chunk's last
\* bytes in order.
C5_OversizeKeepsTail ==
    (Wrote /\ ~strict /\ ~safe /\ Len(Returned.chunk) > Len(buffer))
        => /\ Returned.kind = "Buffer"
           /\ Len(Returned.segs) = 1
           /\ Len(ReadView(Returned).bytes) = Len(buffer)
           /\ ReadView(Returned) =
                  Ok(Slice(Returned.chunk, Len(Returned.chunk) - Len(buffer),
                           Len(Returned.chunk)))

\* A chunk longer than a buffer of two or more bytes, written at an offset
\* other than 0, came back as its tail.
C5_Witness ==
    /\ Wrote /\ ~strict /\ ~safe
    /\ Len(buffer) >= 2
    /\ offset > 0
    /\ Len(Returned.chunk) > Len(buffer)
    /\ ReadView(Returned).bytes = Retained(Returned.chunk)

\* C6: write throws exactly when the buffer is strict and the chunk is longer
\* than the buffer, whatever the offset and the writes before.
C6_ThrowsIffStrictAndTooLong ==
    (pc = "ready" /\ result.op = "write")
        => (result.status = "error" <=> (strict /\ result.n > Len(buffer)))

\* A strict buffer took a chunk of exactly its size after earlier writes, so
\* that more bytes than it holds were written in all.
C6_Witness ==
    /\ Wrote /\ strict
    /\ Len(buffer) >= 2
    /\ result.n = Len(buffer)
    /\ Len(views) >= 2
    /\ fed > Len(buffer)

\* C7: a write that throws changes nothing: the storage, #offset, #totalOffset
\* and the views handed out are as before, and every view reads as before.
C7_RejectedWriteIsAtomic ==
    [][(result'.op = "write" /\ result'.status = "error")
          => /\ UNCHANGED <<buffer, offset, totalOffset, views, strict, safe, pc>>
             /\ \A i \in 1..Len(views) : ReadView(views[i])' = ReadView(views[i])]_vars

\* A strict safe buffer that holds views, one of them stale, has rejected a
\* chunk.
C7_Witness ==
    /\ pc = "ready" /\ strict /\ safe
    /\ result.op = "write" /\ result.status = "error"
    /\ Len(views) >= 2
    /\ ReadView(views[1]).status = "error"
    /\ ReadView(views[2]).status = "ok"

\* C8: not in safe mode a view is a window on the storage: a read of it never
\* throws, has the length the view had when returned, and yields what the
\* storage holds now at the offsets the write used.
C8_PlainViewIsLiveWindow ==
    \A i \in 1..Len(views) :
        ~views[i].proxied
            => LET g == ReadView(views[i])
               IN  /\ g.status = "ok"
                   /\ Len(g.bytes) = Min(Len(views[i].chunk), Len(buffer))
                   /\ \A k \in 1..Len(g.bytes) :
                          g.bytes[k] = buffer[OffsetOf(views[i], k) + 1]

\* A view partly overwritten: its first byte is a later write's, its last
\* byte is still its own.
C8_Witness ==
    /\ pc = "ready" /\ ~safe
    /\ Len(views) >= 2
    /\ LET g == ReadView(views[1])
           c == views[1].chunk
       IN  /\ Len(c) >= 2
           /\ Len(g.bytes) = Len(c)
           /\ g.bytes[1] /= c[1]
           /\ \E j \in 2..Len(views) : \E k \in 1..Len(views[j].chunk) :
                  g.bytes[1] = views[j].chunk[k]
           /\ g.bytes[Len(c)] = c[Len(c)]

\* C9: a read of a view, whether it yields bytes, yields nothing because the
\* view is stale, or throws, leaves the storage, #offset and #totalOffset as
\* they were, and with them what every view reads as.
C9_ReadChangesNothing ==
    [][(result'.op = "read")
          => /\ UNCHANGED <<buffer, offset, totalOffset, views, strict, safe, pc>>
             /\ \A i \in 1..Len(views) : ReadView(views[i])' = ReadView(views[i])]_vars

\* A read of a stale view has thrown while another view is still readable.
C9_Witness ==
    /\ pc = "ready"
    /\ result.op = "read" /\ result.status = "error"
    /\ \E i \in 1..Len(views) :
           /\ ReadView(views[i]).status = "ok"
           /\ Len(ReadView(views[i]).bytes) > 0

\* C10: the constructor throws for a size of 0 or less, so no RingBuffer of
\* size 0 exists.
C10_Claim == pc = "ready" => Len(buffer) > 0

----------------------------------------------------------------------------
\* The offsets of the storage that the ranges segs cover.
Covered(segs) ==
    UNION {{k \in 0..(Len(buffer) - 1) : segs[x][1] <= k /\ k < segs[x][2]} :
               x \in 1..Len(segs)}

\* All the bytes stored by the first i writes, oldest first: of each chunk the
\* bytes a buffer of the current size can retain.
RECURSIVE Stream(_)
Stream(i) ==
    IF i = 0 THEN <<>> ELSE Stream(i - 1) \o Retained(views[i].chunk)

\* #totalOffset when the i-th write began: the lengths of the chunks before it.
RECURSIVE TotalBefore(_)
TotalBefore(i) ==
    IF i <= 1 THEN 0 ELSE TotalBefore(i - 1) + Len(views[i - 1].chunk)

\* The step is a write that returned a view.
WriteStep == Len(views') = Len(views) + 1

\* The chunk a WriteStep wrote.
Written == views'[Len(views')].chunk

\* C11: a write returns a view of two ranges only when its bytes cross the end
\* of the storage, that is when both ranges hold bytes; bytes that land in one
\* run of the storage come back as one range.
C11_Claim ==
    (Wrote /\ Len(Returned.segs) = 2)
        => /\ Returned.segs[1][2] > Returned.segs[1][1]
           /\ Returned.segs[2][2] > Returned.segs[2][1]

\* C12: after any writes to a buffer of one byte or more, #offset is at least
\* 0 and less than the size of the buffer.
C12_Claim ==
    (pc = "ready" /\ Len(buffer) > 0)
        => (0 <= offset /\ offset < Len(buffer))

\* C13: after any successful writes, for every k up to the size of the buffer
\* and up to the number of bytes stored so far, the k bytes of the storage
\* that end before #offset, taken around the ring, are the last k bytes
\* written, in order.
C13_Claim ==
    pc = "ready"
        => LET all == Stream(Len(views))
           IN  \A k \in 1..Min(Len(buffer), Len(all)) :
                   \A j \in 1..k :
                       buffer[((offset - k + j - 1) % Len(buffer)) + 1]
                           = all[Len(all) - k + j]

\* C14: a chunk longer than the buffer, written to a buffer that is not
\* strict, leaves the storage equal to the chunk's last bytes from offset 0
\* on, and #offset at 0.
C14_Claim ==
    (Wrote /\ ~strict /\ Len(Returned.chunk) > Len(buffer))
        => /\ buffer = Retained(Returned.chunk)
           /\ offset = 0

\* The offsets of the storage a write of the chunk of v, begun at v.at, stores
\* bytes into: all of them for a chunk longer than the buffer, the chunk's
\* length of them around the ring from v.at otherwise.
WrittenOffsets(v) ==
    IF Len(v.chunk) > Len(buffer)
    THEN 0..(Len(buffer) - 1)
    ELSE {(v.at + j) % Len(buffer) : j \in 0..(Len(v.chunk) - 1)}

\* A read of v is refused: it throws, or yields nothing from a buffer that is
\* not strict.
Refused(v) ==
    \/ ReadView(v).status = "error"
    \/ (~strict /\ ReadView(v).bytes = <<>>)

\* C15: a write of a chunk no longer than the buffer that fits before the end
\* of the storage returns the one range [offset, offset + n), stores the chunk
\* there and moves #offset to offset + n; otherwise, with remaining = size -
\* offset, it returns [offset, size) followed by [0, n - remaining), stores the
\* first remaining bytes in the former and the rest in the latter, and moves
\* #offset to n - remaining.
C15_PlacementAndCursor ==
    (Wrote /\ Len(Returned.chunk) <= Len(buffer))
        => LET v         == Returned
               n         == Len(v.chunk)
               size      == Len(buffer)
               remaining == size - v.at
           IN  IF v.at + n <= size
               THEN /\ v.segs = << <<v.at, v.at + n>> >>
                    /\ Slice(buffer, v.at, v.at + n) = v.chunk
                    /\ offset = v.at + n
               ELSE /\ v.segs = << <<v.at, size>>, <<0, n - remaining>> >>
                    /\ Slice(buffer, v.at, size) = SubSeq(v.chunk, 1, remaining)
                    /\ Slice(buffer, 0, n - remaining) = SubSeq(v.chunk, remaining + 1, n)
                    /\ offset = n - remaining

\* A third write or later began inside the storage, ran over its end and left
\* #offset past 0.
C15_Witness ==
    /\ Wrote
    /\ Len(views) >= 3
    /\ Returned.at < Len(buffer)
    /\ Returned.at + Len(Returned.chunk) > Len(buffer)
    /\ Len(Returned.chunk) <= Len(buffer)
    /\ offset = Len(Returned.chunk) - (Len(buffer) - Returned.at)
    /\ offset > 0

\* C16: in safe mode #totalOffset never decreases and every successful write
\* to a buffer of one byte or more adds to it the number of bytes the write
\* kept in the storage, the smaller of the chunk's length and the buffer's size.
C16_Claim ==
    [][/\ totalOffset' >= totalOffset
       /\ (WriteStep /\ safe /\ Len(buffer) >= 1)
             => totalOffset' = totalOffset + Min(Len(Written), Len(buffer))]_vars

\* C17, as stated: in safe mode a read treats a view as stale exactly when
\* #totalOffset has reached or passed the value it had when the view's write
\* began plus the size of the buffer; a view is stale already when the two
\* are equal.
C17_Claim ==
    \A i \in 1..Len(views) :
        (views[i].proxied /\ Len(views[i].chunk) >= 1 /\ Len(buffer) >= 1)
            => (Refused(views[i]) <=> totalOffset >= TotalBefore(i) + Len(buffer))

\* C17, amended: the view is stale exactly when #totalOffset has passed that
\* value; when the two are equal the view is still read from the storage.
C17_StaleOncePastSafeOffset ==
    \A i \in 1..Len(views) :
        (views[i].proxied /\ Len(views[i].chunk) >= 1 /\ Len(buffer) >= 1)
            => (Refused(views[i]) <=> totalOffset > TotalBefore(i) + Len(buffer))

\* #totalOffset equals the first view's limit and the first view still reads
\* as its chunk, after a second write.
C17_Witness ==
    /\ pc = "ready" /\ safe
    /\ Len(views) >= 2
    /\ Len(buffer) >= 2
    /\ Len(views[1].chunk) >= 1
    /\ totalOffset = TotalBefore(1) + Len(buffer)
    /\ ReadView(views[1]) = Ok(views[1].chunk)

\* C18: in safe mode without strict, once a chunk longer than the buffer has
\* been written, every view returned before it reads as the empty sequence.
C18_OversizeStalesEarlierViews ==
    \A j \in 1..Len(views) : \A i \in 1..(j - 1) :
        (safe /\ ~strict /\ Len(views[j].chunk) > Len(buffer))
            => ReadView(views[i]) = Ok(<<>>)

\* A view of one byte or more was read after a longer-than-buffer chunk had
\* been written, and the read gave nothing.
C18_Witness ==
    /\ pc = "ready" /\ safe /\ ~strict
    /\ Len(buffer) >= 2
    /\ Len(views) >= 2
    /\ Len(views[1].chunk) >= 1
    /\ Len(views[1].chunk) <= Len(buffer)
    /\ Len(views[2].chunk) > Len(buffer)
    /\ result.op = "read" /\ result.view = 1 /\ result.bytes = <<>>

\* C19: in safe mode a view of 1 to size bytes is refused only if a later
\* write has stored a byte at one of the offsets the view covers.
C19_NoFalseStaleness ==
    \A i \in 1..Len(views) :
        (/\ views[i].proxied
         /\ Len(views[i].chunk) >= 1
         /\ Len(views[i].chunk) <= Len(buffer)
         /\ Refused(views[i]))
            => \E j \in (i + 1)..Len(views) :
                   WrittenOffsets(views[j]) \cap Covered(views[i].segs) /= {}

\* Of three views the first is refused, while the second, of one byte or
\* more, still reads as its chunk although a later write has stored bytes.
C19_Witness ==
    /\ pc = "ready" /\ safe
    /\ Len(views) >= 3
    /\ Len(views[1].chunk) >= 1
    /\ Len(views[1].chunk) <= Len(buffer)
    /\ Refused(views[1])
    /\ Len(views[2].chunk) >= 1
    /\ Len(views[3].chunk) >= 1
    /\ ReadView(views[2]) = Ok(views[2].chunk)

\* C20: a successful write of a chunk no longer than the buffer leaves every
\* byte of the storage as it was except at the n offsets from #offset on
\* around the ring, and a write of no bytes changes neither the storage nor
\* #offset.
C20_WriteFootprint ==
    [][(WriteStep /\ Len(Written) <= Len(buffer))
          => /\ \A k \in 0..(Len(buffer) - 1) :
                    k \notin {(offset + j) % Len(buffer) : j \in 0..(Len(Written) - 1)}
                        => buffer'[k + 1] = buffer[k + 1]
             /\ Len(Written) = 0 => (buffer' = buffer /\ offset' = offset)]_vars

\* A wrapping write of fewer bytes than the buffer holds has left the bytes of
\* an earlier view between its two ranges untouched.
C20_Witness ==
    /\ Wrote /\ ~safe
    /\ Len(views) >= 3
    /\ Len(Returned.segs) = 2
    /\ Len(Returned.chunk) < Len(buffer)
    /\ Returned.at < Len(buffer)
    /\ \E i \in 1..(Len(views) - 1) :
           /\ Len(views[i].chunk) >= 1
           /\ Len(views[i].chunk) <= Len(buffer)
           /\ ReadView(views[i]) = Ok(views[i].chunk)

====
